---- MODULE Spec2Model ----
(***************************************************************************)
(* Model of the azure_monitor_logs_dce sink: the shared token store and    *)
(* its background regenerator (auth.rs), the delivery service (service.rs) *)
(* and the sink construction and retry logic (sink.rs).                    *)
(***************************************************************************)
EXTENDS Integers, Sequences, FiniteSets, TLC

\* ------------------------------------------------------------------ bounds
NumCallers == 2      \* service clones that issue calls
NumTokens  == 2      \* distinct secrets the credential can hand out
SecretLen  == 2      \* characters of a secret
MaxTicks   == 2      \* ticks of the regenerator that are explored
MaxSize    == 1      \* largest size recorded in a request's metadata
BigBodyLen == 11     \* longest request body of the delivery specification
MinStatus  == 100    \* smallest status code that is classified
MaxStatus  == 599    \* largest status code that is classified

Callers == 1..NumCallers
Tokens  == 1..NumTokens

\* ------------------------------------------------------------ plain data
Alphabet == <<"a", "b", "c", "d", "e", "f">>

\* AccessToken::secret of the g-th token the credential can return
Secret(g) == [i \in 1..SecretLen |-> Alphabet[g]]

Secrets == {Secret(g) : g \in Tokens}

Digits == <<"0", "1", "2", "3", "4", "5", "6", "7", "8", "9">>

RECURSIVE to_string(_)
\* usize::to_string: the decimal digits of n, most significant first
to_string(n) ==
    IF n < 10 THEN <<Digits[n + 1]>>
    ELSE to_string(n \div 10) \o <<Digits[(n % 10) + 1]>>

\* AzureMonitorLogsDceConfig::default, the fields create_endpoint reads
endpoint_host == "sample.westeurope.ingest.monitor.azure.com"
immutable_id  == "dcr-00000000000000000000000000000000"
stream_name   == "Custom-CustomTableRawData"

\* AzureMonitorLogsDceConfig::create_endpoint
create_endpoint ==
    <<"https://", endpoint_host, "/dataCollectionRules/", immutable_id,
      "/streams/", stream_name, "?api-version=2021-11-01-preview">>

\* HeaderMap::insert: sets the value of name k, replacing an earlier one
HeaderInsert(h, k, v) ==
    [x \in (DOMAIN h) \cup {k} |-> IF x = k THEN v ELSE h[x]]

NoHeaders == [x \in {} |-> <<>>]

\* request bodies: every length up to n, two contents per length
Bodies(n) == {[i \in 1..len |-> fill + i] : len \in 0..n, fill \in {0, 100}}

\* RequestMetadata, the two sizes the response takes from it
Metadatas ==
    [request_encoded_size : 0..MaxSize, events_byte_size : 0..MaxSize]

Requests(n) == [body : Bodies(n), metadata : Metadatas]

NoRequest == [body |-> <<>>, metadata |-> [request_encoded_size |-> 0,
                                           events_byte_size |-> 0]]

NoHttp == [method |-> "", uri |-> <<>>, headers |-> NoHeaders, body |-> <<>>]

\* ---------------------------------------------------------- http statuses
\* StatusCode::is_success
is_success(status) == 200 <= status /\ status <= 299

\* StatusCode::is_server_error
is_server_error(status) == 500 <= status /\ status <= 599

TOO_MANY_REQUESTS == 429
NOT_IMPLEMENTED   == 501

StatusCodes == MinStatus..MaxStatus

\* the statuses the concurrent specification lets the endpoint answer with
StatusSample == {200, 503}

\* causes of a failed transport call (crate::http::HttpError)
TransportErrors == {"CallRequest", "BuildTlsConnector"}

\* what client.call(http_request).await can resolve to
TransportResults(statuses) ==
    [ok : {TRUE}, status : statuses] \cup [ok : {FALSE}, error : TransportErrors]

\* the transport results of the concurrent specification
SampleResults == TransportResults(StatusSample)

\* the request the concurrent specification hands to call
SampleRequests ==
    {[body |-> <<7>>, metadata |-> [request_encoded_size |-> 1,
                                    events_byte_size |-> 0]]}

\* an event status that takes 200 for the only success
EventStatusOnlyOk(response) ==
    IF response.status = 200
    THEN "Delivered"
    ELSE IF is_server_error(response.status)
    THEN "Errored"
    ELSE "Rejected"

\* DriverResponse::event_status of AzureMonitorLogsDceResponse
event_status(response) ==
    IF is_success(response.status)
    THEN "Delivered"
    ELSE IF is_server_error(response.status)
    THEN "Errored"
    ELSE "Rejected"

\* ------------------------------------------------------------ retry logic
\* Display of StatusCode: the code and its canonical reason
StatusDisplay(status) == <<to_string(status), "canonical_reason">>

\* the match without its NOT_IMPLEMENTED arm
ShouldRetryWithout501(response) ==
    LET status == response.status IN
    IF status = TOO_MANY_REQUESTS
    THEN [action |-> "Retry", reason |-> <<"too many requests">>]
    ELSE IF is_server_error(status)
    THEN [action |-> "Retry", reason |-> StatusDisplay(status)]
    ELSE IF is_success(status)
    THEN [action |-> "Successful", reason |-> <<>>]
    ELSE [action |-> "DontRetry",
          reason |-> <<"response status: ">> \o StatusDisplay(status)]

\* AzureMonitorLogsDceRetryLogic::should_retry_response: the arms of the
\* match, first that applies
should_retry_response(response) ==
    LET status == response.status IN
    IF status = TOO_MANY_REQUESTS
    THEN [action |-> "Retry", reason |-> <<"too many requests">>]
    ELSE IF status = NOT_IMPLEMENTED
    THEN [action |-> "DontRetry", reason |-> <<"endpoint not implemented">>]
    ELSE IF is_server_error(status)
    THEN [action |-> "Retry", reason |-> StatusDisplay(status)]
    ELSE IF is_success(status)
    THEN [action |-> "Successful", reason |-> <<>>]
    ELSE [action |-> "DontRetry",
          reason |-> <<"response status: ">> \o StatusDisplay(status)]

\* AzureMonitorLogsDceRetryLogic::is_retriable_error
is_retriable_error(error) == TRUE

\* impl RetryLogic: a response goes to should_retry_response, an error to
\* is_retriable_error
ClassifyOutcome(out) ==
    IF out.kind = "Ok"
    THEN should_retry_response([status |-> out.status])
    ELSE IF is_retriable_error(out)
    THEN [action |-> "Retry", reason |-> <<"error">>]
    ELSE [action |-> "DontRetry", reason |-> <<"error">>]

\* ------------------------------------------------------------------ state
VARIABLES
    bpc,          \* position of AzureMonitorLogsDceConfig::build
    berr,         \* the error build returned, "none" while there is none
    heap,         \* the Inner objects allocated so far (Arc<Inner>)
    creds,        \* Inner the authenticator of build / of the service points to
    task,         \* Inner the regenerator task's clone points to, 0: no task
    svc,          \* per caller: Inner its service clone points to, 0: no clone
    rpc,          \* position of token_regenerator
    fetched,      \* token the regenerator's fetch returned
    wpos,         \* characters of the new token already written to the store
    version,      \* version of the watch channel (send_replace increments it)
    receivers,    \* live receivers of the watch channel
    fetches,      \* calls of fetch_token made so far
    lastTick,     \* how the latest tick ended: none, running, ok, failed
    tokenBefore,  \* the stored secret when the latest tick fired
    installed,    \* the secret new or the latest successful tick installed
    cpc,          \* per caller: position of its call
    creq,         \* per caller: the request given to call
    cbuf,         \* per caller: characters get_token has copied so far
    chttp,        \* per caller: the http request call has built
    cseen,        \* per caller: the stored secret when call was invoked
    wire,         \* per caller: the http request handed to the transport
    cres,         \* per caller: what the transport answered
    cout,         \* per caller: what the future of call resolved to
    sends,        \* per caller: requests its call has handed to the transport
    due,          \* ticks of the interval that are due and not yet taken
    elapsed,      \* whole periods that have elapsed since the task was spawned
    ticks,        \* ticks of the interval the regenerator has taken
    oks,          \* replacements of the stored token that have completed
    inflight,     \* fetches of the regenerator that are in flight
    probe,        \* input of the retry logic under test
    verdict       \* what the retry logic answered for probe

buildVars == <<bpc, berr>>
storeVars == <<heap, creds, task, svc>>
taskVars  == <<rpc, fetched, wpos, version, receivers>>
ghostVars == <<fetches, lastTick, tokenBefore, installed>>
callVars  == <<cpc, creq, cbuf, chttp, cseen, wire, cres, cout>>
retryVars == <<probe, verdict>>
timerVars == <<due, elapsed>>
countVars == <<ticks, oks, inflight>>

vars == <<buildVars, storeVars, taskVars, ghostVars, callVars, retryVars,
          sends, timerVars, countVars>>

NoOutcome == [kind |-> "none"]
NoProbe   == [kind |-> "none"]

\* ------------------------------------------------------------ token store
\* struct Inner: the token behind its RwLock, with the lock's state
NewInner(token) == [token |-> token, readers |-> {}, writer |-> FALSE]

\* RwLock::read succeeds when no writer holds the lock
CanRead(i) == ~heap[i].writer

\* a write lock that does not wait for the readers to leave
CanWriteIgnoringReaders(i) == ~heap[i].writer

\* RwLock::write succeeds when nobody holds the lock
CanWrite(i) == ~heap[i].writer /\ heap[i].readers = {}

\* a clone that copies the Inner, token included, instead of sharing it
CloneAuthenticatorDeep(hp, i) ==
    <<Append(hp, NewInner(hp[i].token)), Len(hp) + 1>>

\* #[derive(Clone)] of AzureAuthenticator: Arc::clone, the same Inner
CloneAuthenticator(hp, i) == <<hp, i>>

\* fetch_token: the credential answers with one of its tokens or fails
FetchResults == [ok : {TRUE}, token : Tokens] \cup {[ok |-> FALSE, token |-> 0]}

\* --------------------------------------------------------- construction
\* a constructor that goes on with an empty token when the fetch fails
NewLazy ==
    /\ bpc = "new"
    /\ \E r \in FetchResults :
         /\ fetches' = fetches + 1
         /\ heap' = Append(heap, NewInner(IF r.ok THEN Secret(r.token) ELSE <<>>))
         /\ creds' = Len(heap) + 1
         /\ installed' = IF r.ok THEN Secret(r.token) ELSE installed
         /\ bpc' = "tls"
         /\ berr' = berr
    /\ UNCHANGED <<task, svc, taskVars, lastTick, tokenBefore, callVars,
                   retryVars>>
    /\ UNCHANGED <<sends, timerVars, countVars>>

\* AzureAuthenticator::new, awaited by build: the initial fetch
New ==
    /\ bpc = "new"
    /\ \E r \in FetchResults :
         /\ fetches' = fetches + 1
         /\ IF r.ok
            THEN /\ heap' = Append(heap, NewInner(Secret(r.token)))
                 /\ creds' = Len(heap) + 1
                 /\ installed' = Secret(r.token)
                 /\ bpc' = "tls"
                 /\ berr' = berr
            ELSE /\ bpc' = "err"
                 /\ berr' = "auth"
                 /\ UNCHANGED <<heap, creds, installed>>
    /\ UNCHANGED <<task, svc, taskVars, lastTick, tokenBefore, callVars,
                   retryVars>>
    /\ UNCHANGED <<sends, timerVars, countVars>>

\* build: TlsSettings::from_options(&self.tls)?
TlsFromOptions ==
    /\ bpc = "tls"
    /\ \E ok \in BOOLEAN :
         IF ok
         THEN bpc' = "client" /\ UNCHANGED <<berr, creds>>
         ELSE bpc' = "err" /\ berr' = "tls" /\ creds' = 0
    /\ UNCHANGED <<heap, task, svc, taskVars, ghostVars, callVars, retryVars>>
    /\ UNCHANGED <<sends, timerVars, countVars>>

\* build: HttpClient::new(tls, cx.proxy())?
HttpClientNew ==
    /\ bpc = "client"
    /\ \E ok \in BOOLEAN :
         IF ok
         THEN bpc' = "spawn" /\ UNCHANGED <<berr, creds>>
         ELSE bpc' = "err" /\ berr' = "client" /\ creds' = 0
    /\ UNCHANGED <<heap, task, svc, taskVars, ghostVars, callVars, retryVars>>
    /\ UNCHANGED <<sends, timerVars, countVars>>

\* a regenerator whose interval fires at once, as tokio::time::interval does
SpawnWithImmediateTick ==
    /\ bpc = "spawn"
    /\ LET c == CloneAuthenticator(heap, creds) IN
         /\ heap' = c[1]
         /\ task' = c[2]
    /\ rpc' = "sleep"
    /\ version' = 0
    /\ receivers' = 0
    /\ bpc' = "build_sink"
    /\ UNCHANGED <<berr, creds, svc, fetched, wpos, ghostVars,
                   callVars, retryVars>>
    /\ due' = 1
    /\ elapsed' = 0
    /\ UNCHANGED <<sends, countVars>>

\* build: creds.spawn_regenerate_token(); the receiver it returns is dropped
SpawnRegenerateToken ==
    /\ bpc = "spawn"
    /\ LET c == CloneAuthenticator(heap, creds) IN
         /\ heap' = c[1]
         /\ task' = c[2]
    /\ rpc' = "sleep"
    /\ version' = 0
    /\ receivers' = 0
    /\ bpc' = "build_sink"
    /\ UNCHANGED <<berr, creds, svc, fetched, wpos, ghostVars,
                   callVars, retryVars>>
    /\ due' = 0
    /\ elapsed' = 0
    /\ UNCHANGED <<sends, countVars>>

\* build: self.build_sink(client, creds)?, which fails when
\* self.batch.into_batcher_settings() does
BuildSink ==
    /\ bpc = "build_sink"
    /\ \E ok \in BOOLEAN :
         IF ok
         THEN bpc' = "ok" /\ UNCHANGED <<berr, creds>>
         ELSE bpc' = "err" /\ berr' = "batch" /\ creds' = 0
    /\ UNCHANGED <<heap, task, svc, taskVars, ghostVars, callVars, retryVars>>
    /\ UNCHANGED <<sends, timerVars, countVars>>

\* #[derive(Clone)] of AzureMonitorLogsDceService: caller c gets a clone
CloneService(c) ==
    /\ bpc = "ok"
    /\ svc[c] = 0
    /\ LET cl == CloneAuthenticator(heap, creds) IN
         /\ heap' = cl[1]
         /\ svc' = [svc EXCEPT ![c] = cl[2]]
    /\ cpc' = [cpc EXCEPT ![c] = "idle"]
    /\ UNCHANGED <<buildVars, creds, task, taskVars, ghostVars, creq, cbuf,
                   chttp, cseen, wire, cres, cout, retryVars>>
    /\ UNCHANGED <<sends, timerVars, countVars>>

\* a clone of the service is dropped by the caller that held it
DropService(c) ==
    /\ cpc[c] = "idle"
    /\ svc' = [svc EXCEPT ![c] = 0]
    /\ cpc' = [cpc EXCEPT ![c] = "none"]
    /\ UNCHANGED <<buildVars, heap, creds, task, taskVars, ghostVars, creq,
                   cbuf, chttp, cseen, wire, cres, cout, retryVars, sends,
                   timerVars, countVars>>

\* run_inner returns: the sink and the service it owns are dropped
DropSink ==
    /\ bpc = "ok"
    /\ bpc' = "dropped"
    /\ creds' = 0
    /\ UNCHANGED <<berr, heap, task, svc, taskVars, ghostVars, callVars,
                   retryVars, sends, timerVars, countVars>>

\* ----------------------------------------------------------- regenerator
\* one more period of the interval elapses: one more tick is due
PeriodElapses ==
    /\ rpc # "none"
    /\ elapsed < MaxTicks
    /\ elapsed' = elapsed + 1
    /\ due' = due + 1
    /\ UNCHANGED <<buildVars, storeVars, taskVars, ghostVars, callVars,
                   retryVars, sends, countVars>>

\* a tick that takes the write lock before it starts the fetch
TickLocksFirst ==
    /\ rpc = "sleep"
    /\ due > 0
    /\ CanWrite(task)
    /\ heap' = [heap EXCEPT ![task].writer = TRUE]
    /\ fetches' = fetches + 1
    /\ lastTick' = "running"
    /\ tokenBefore' = heap[task].token
    /\ rpc' = "fetch"
    /\ UNCHANGED <<buildVars, creds, task, svc, fetched, wpos, version,
                   receivers, installed, callVars, retryVars>>
    /\ due' = due - 1
    /\ ticks' = ticks + 1
    /\ inflight' = inflight + 1
    /\ UNCHANGED <<sends, elapsed, oks>>

\* a timer that starts the next fetch while the previous tick is unfinished
TickOverlapping ==
    /\ rpc # "none"
    /\ due > 0
    /\ fetches' = fetches + 1
    /\ lastTick' = "running"
    /\ tokenBefore' = heap[task].token
    /\ rpc' = "fetch"
    /\ UNCHANGED <<buildVars, storeVars, fetched, wpos, version, receivers,
                   installed, callVars, retryVars>>
    /\ due' = due - 1
    /\ ticks' = ticks + 1
    /\ inflight' = inflight + 1
    /\ UNCHANGED <<sends, elapsed, oks>>

\* token_regenerator: interval.tick() returns, regenerate_token starts its
\* fetch
Tick ==
    /\ rpc = "sleep"
    /\ due > 0
    /\ fetches' = fetches + 1
    /\ lastTick' = "running"
    /\ tokenBefore' = heap[task].token
    /\ rpc' = "fetch"
    /\ UNCHANGED <<buildVars, storeVars, fetched, wpos, version, receivers,
                   installed, callVars, retryVars>>
    /\ due' = due - 1
    /\ ticks' = ticks + 1
    /\ inflight' = inflight + 1
    /\ UNCHANGED <<sends, elapsed, oks>>

\* regenerate_token: fetch_token(..).await? returns a token
FetchOk ==
    /\ rpc = "fetch"
    /\ \E g \in Tokens : fetched' = g
    /\ rpc' = "lock"
    /\ UNCHANGED <<buildVars, storeVars, wpos, version, receivers,
                   ghostVars, callVars, retryVars>>
    /\ inflight' = inflight - 1
    /\ UNCHANGED <<sends, timerVars, ticks, oks>>

\* a failed fetch that empties the store
FetchErrClearsToken ==
    /\ rpc = "fetch"
    /\ rpc' = "sleep"
    /\ lastTick' = "failed"
    /\ heap' = [heap EXCEPT ![task].token = <<>>]
    /\ UNCHANGED <<buildVars, creds, task, svc, fetched, wpos, version,
                   receivers, fetches, tokenBefore, installed, callVars,
                   retryVars>>
    /\ inflight' = inflight - 1
    /\ UNCHANGED <<sends, timerVars, ticks, oks>>

\* a failed fetch after which the signal is published all the same
FetchErrPublishes ==
    /\ rpc = "fetch"
    /\ rpc' = "publish"
    /\ lastTick' = "failed"
    /\ UNCHANGED <<buildVars, storeVars, fetched, wpos, version,
                   receivers, fetches, tokenBefore, installed, callVars,
                   retryVars>>
    /\ inflight' = inflight - 1
    /\ UNCHANGED <<sends, timerVars, ticks, oks>>

\* a failed fetch that is tried again within the same tick
FetchErrRetries ==
    /\ rpc = "fetch"
    /\ fetches <= MaxTicks + 1
    /\ fetches' = fetches + 1
    /\ UNCHANGED <<buildVars, storeVars, taskVars, lastTick, tokenBefore,
                   installed, callVars, retryVars>>
    /\ UNCHANGED <<sends, timerVars, countVars>>

\* regenerate_token: fetch_token(..).await? fails; the error is logged
FetchErr ==
    /\ rpc = "fetch"
    /\ rpc' = "sleep"
    /\ lastTick' = "failed"
    /\ UNCHANGED <<buildVars, storeVars, fetched, wpos, version,
                   receivers, fetches, tokenBefore, installed, callVars,
                   retryVars>>
    /\ inflight' = inflight - 1
    /\ UNCHANGED <<sends, timerVars, ticks, oks>>

\* regenerate_token: self.token.write()
WriteLock ==
    /\ rpc = "lock"
    /\ CanWrite(task)
    /\ heap' = [heap EXCEPT ![task].writer = TRUE]
    /\ wpos' = 0
    /\ rpc' = "write"
    /\ UNCHANGED <<buildVars, creds, task, svc, fetched, version,
                   receivers, ghostVars, callVars, retryVars>>
    /\ UNCHANGED <<sends, timerVars, countVars>>

\* regenerate_token: *guard = token, one character of the store at a time
WriteChar ==
    /\ rpc = "write"
    /\ wpos < SecretLen
    /\ heap' = [heap EXCEPT ![task].token[wpos + 1] = Secret(fetched)[wpos + 1]]
    /\ wpos' = wpos + 1
    /\ UNCHANGED <<buildVars, creds, task, svc, rpc, fetched, version,
                   receivers, ghostVars, callVars, retryVars>>
    /\ UNCHANGED <<sends, timerVars, countVars>>

\* regenerate_token: the guard is dropped and Ok(()) returned
WriteUnlock ==
    /\ rpc = "write"
    /\ wpos = SecretLen
    /\ heap' = [heap EXCEPT ![task].writer = FALSE]
    /\ rpc' = "publish"
    /\ lastTick' = "ok"
    /\ installed' = Secret(fetched)
    /\ UNCHANGED <<buildVars, creds, task, svc, fetched, wpos, version,
                   receivers, fetches, tokenBefore, callVars, retryVars>>
    /\ oks' = oks + 1
    /\ UNCHANGED <<sends, timerVars, ticks, inflight>>

\* a publish that fails without receivers and ends the loop, as a
\* propagated error of watch::Sender::send would
PublishNeedsReceiver ==
    /\ rpc = "publish"
    /\ IF receivers > 0
       THEN version' = version + 1 /\ rpc' = "sleep"
       ELSE version' = version /\ rpc' = "stopped"
    /\ UNCHANGED <<buildVars, storeVars, fetched, wpos, receivers,
                   ghostVars, callVars, retryVars>>
    /\ UNCHANGED <<sends, timerVars, countVars>>

\* token_regenerator: Ok(()) => sender.send_replace(())
Publish ==
    /\ rpc = "publish"
    /\ version' = version + 1
    /\ rpc' = "sleep"
    /\ UNCHANGED <<buildVars, storeVars, fetched, wpos, receivers,
                   ghostVars, callVars, retryVars>>
    /\ UNCHANGED <<sends, timerVars, countVars>>

\* -------------------------------------------------------- delivery service
Bearer == <<"B", "e", "a", "r", "e", "r", " ">>

\* a request whose content-length is the encoded size of the metadata
BuildRequestEncodedSize(req) ==
    [method  |-> "POST",
     uri     |-> create_endpoint,
     headers |-> HeaderInsert(
                     HeaderInsert(NoHeaders, "content-type",
                                  <<"application/json">>),
                     "content-length",
                     to_string(req.metadata.request_encoded_size)),
     body    |-> req.body]

\* call: Request::post(&self.uri) with the two content headers and the body
BuildRequest(req) ==
    [method  |-> "POST",
     uri     |-> create_endpoint,
     headers |-> HeaderInsert(
                     HeaderInsert(NoHeaders, "content-type",
                                  <<"application/json">>),
                     "content-length", to_string(Len(req.body))),
     body    |-> req.body]

\* AzureAuthenticator::apply: insert(AUTHORIZATION, format!("Bearer {}", token))
apply(http, token) ==
    [http EXCEPT !.headers = HeaderInsert(@, "authorization", Bearer \o token)]

\* a match that takes every response for a success
CallOutcomeIgnoringStatus(req, res) ==
    IF res.ok
    THEN [kind |-> "Ok",
          status |-> res.status,
          raw_byte_size |-> req.metadata.request_encoded_size,
          events_byte_size |-> req.metadata.events_byte_size]
    ELSE [kind |-> "HttpError", error |-> res.error]

\* call: the match on what client.call resolved to
CallOutcome(req, res) ==
    IF res.ok
    THEN IF is_success(res.status)
         THEN [kind |-> "Ok",
               status |-> res.status,
               raw_byte_size |-> req.metadata.request_encoded_size,
               events_byte_size |-> req.metadata.events_byte_size]
         ELSE [kind |-> "ServerError", code |-> res.status]
    ELSE [kind |-> "HttpError", error |-> res.error]

\* call is invoked with a request: the request is built and apply starts
\* get_token, which takes the read lock
CallStart(c, requests) ==
    /\ cpc[c] = "idle"
    /\ CanRead(svc[c])
    /\ \E req \in requests :
         /\ creq' = [creq EXCEPT ![c] = req]
         /\ chttp' = [chttp EXCEPT ![c] = BuildRequest(req)]
    /\ heap' = [heap EXCEPT ![svc[c]].readers = @ \cup {c}]
    /\ cseen' = [cseen EXCEPT ![c] = heap[svc[c]].token]
    /\ cbuf' = [cbuf EXCEPT ![c] = <<>>]
    /\ cpc' = [cpc EXCEPT ![c] = "read"]
    /\ UNCHANGED <<buildVars, creds, task, svc, taskVars, ghostVars, wire,
                   cres, cout, retryVars>>
    /\ UNCHANGED <<sends, timerVars, countVars>>

\* get_token: secret().to_string() copies the next character of the secret
CopyChar(c) ==
    /\ cpc[c] = "read"
    /\ Len(cbuf[c]) < Len(heap[svc[c]].token)
    /\ cbuf' = [cbuf EXCEPT ![c] = Append(@, heap[svc[c]].token[Len(@) + 1])]
    /\ UNCHANGED <<buildVars, storeVars, taskVars, ghostVars, cpc, creq,
                   chttp, cseen, wire, cres, cout, retryVars>>
    /\ UNCHANGED <<sends, timerVars, countVars>>

\* get_token returns and drops the read guard; apply inserts the header and
\* call returns the boxed future
Apply(c) ==
    /\ cpc[c] = "read"
    /\ Len(cbuf[c]) = Len(heap[svc[c]].token)
    /\ heap' = [heap EXCEPT ![svc[c]].readers = @ \ {c}]
    /\ chttp' = [chttp EXCEPT ![c] = apply(@, cbuf[c])]
    /\ cbuf' = [cbuf EXCEPT ![c] = <<>>]
    /\ cpc' = [cpc EXCEPT ![c] = "pending"]
    /\ UNCHANGED <<buildVars, creds, task, svc, taskVars, ghostVars, creq,
                   cseen, wire, cres, cout, retryVars>>
    /\ UNCHANGED <<sends, timerVars, countVars>>

\* a future that applies the token when it is polled
PollAppliesToken(c) ==
    /\ cpc[c] = "pending"
    /\ wire' = [wire EXCEPT ![c] = apply(chttp[c], heap[svc[c]].token)]
    /\ chttp' = [chttp EXCEPT ![c] = NoHttp]
    /\ cpc' = [cpc EXCEPT ![c] = "sending"]
    /\ UNCHANGED <<buildVars, storeVars, taskVars, ghostVars, creq, cbuf,
                   cseen, cres, cout, retryVars>>
    /\ sends' = [sends EXCEPT ![c] = @ + 1]
    /\ UNCHANGED <<timerVars, countVars>>

\* the future is polled: client.call(http_request) hands the request over
Poll(c) ==
    /\ cpc[c] = "pending"
    /\ wire' = [wire EXCEPT ![c] = chttp[c]]
    /\ chttp' = [chttp EXCEPT ![c] = NoHttp]
    /\ cpc' = [cpc EXCEPT ![c] = "sending"]
    /\ UNCHANGED <<buildVars, storeVars, taskVars, ghostVars, creq, cbuf,
                   cseen, cres, cout, retryVars>>
    /\ sends' = [sends EXCEPT ![c] = @ + 1]
    /\ UNCHANGED <<timerVars, countVars>>

\* a service that sends the request once more when the first attempt failed
RespondResends(c, results) ==
    /\ cpc[c] = "sending"
    /\ \E res \in results :
         IF CallOutcome(creq[c], res).kind # "Ok" /\ sends[c] < 2
         THEN /\ sends' = [sends EXCEPT ![c] = @ + 1]
              /\ UNCHANGED <<cres, cout, wire, cseen, cpc>>
         ELSE /\ cres' = [cres EXCEPT ![c] = res]
              /\ cout' = [cout EXCEPT ![c] = CallOutcome(creq[c], res)]
              /\ wire' = [wire EXCEPT ![c] = NoHttp]
              /\ cseen' = [cseen EXCEPT ![c] = <<>>]
              /\ cpc' = [cpc EXCEPT ![c] = "done"]
              /\ UNCHANGED sends
    /\ UNCHANGED <<buildVars, storeVars, taskVars, ghostVars, creq, cbuf,
                   chttp, retryVars>>
    /\ UNCHANGED <<timerVars, countVars>>

\* client.call(..).await resolves, having consumed the request, and the
\* future of call resolves with it
Respond(c, results) ==
    /\ cpc[c] = "sending"
    /\ \E res \in results :
         /\ cres' = [cres EXCEPT ![c] = res]
         /\ cout' = [cout EXCEPT ![c] = CallOutcome(creq[c], res)]
    /\ wire' = [wire EXCEPT ![c] = NoHttp]
    /\ cseen' = [cseen EXCEPT ![c] = <<>>]
    /\ cpc' = [cpc EXCEPT ![c] = "done"]
    /\ UNCHANGED <<buildVars, storeVars, taskVars, ghostVars, creq, cbuf,
                   chttp, retryVars>>
    /\ UNCHANGED <<sends, timerVars, countVars>>

\* the driver has taken the outcome; the clone serves the next request
Return(c) ==
    /\ cpc[c] = "done"
    /\ cpc' = [cpc EXCEPT ![c] = "idle"]
    /\ creq' = [creq EXCEPT ![c] = NoRequest]
    /\ cres' = [cres EXCEPT ![c] = NoProbe]
    /\ cout' = [cout EXCEPT ![c] = NoOutcome]
    /\ UNCHANGED <<buildVars, storeVars, taskVars, ghostVars, cbuf, chttp,
                   cseen, wire, retryVars>>
    /\ sends' = [sends EXCEPT ![c] = 0]
    /\ UNCHANGED <<timerVars, countVars>>

\* the driver asks the response that call returned for its event status
EventStatus(c) ==
    /\ cpc[c] = "done"
    /\ cout[c].kind = "Ok"
    /\ verdict = NoOutcome
    /\ verdict' = [kind |-> "status", status |-> event_status(cout[c])]
    /\ UNCHANGED <<buildVars, storeVars, taskVars, ghostVars, callVars, probe>>
    /\ UNCHANGED <<sends, timerVars, countVars>>

\* ------------------------------------------------------- specifications
Init ==
    /\ bpc = "new"
    /\ berr = "none"
    /\ heap = <<>>
    /\ creds = 0
    /\ task = 0
    /\ svc = [c \in Callers |-> 0]
    /\ rpc = "none"
    /\ fetched = 0
    /\ wpos = 0
    /\ version = 0
    /\ receivers = 0
    /\ fetches = 0
    /\ lastTick = "none"
    /\ tokenBefore = <<>>
    /\ installed = <<>>
    /\ cpc = [c \in Callers |-> "none"]
    /\ creq = [c \in Callers |-> NoRequest]
    /\ cbuf = [c \in Callers |-> <<>>]
    /\ chttp = [c \in Callers |-> NoHttp]
    /\ cseen = [c \in Callers |-> <<>>]
    /\ wire = [c \in Callers |-> NoHttp]
    /\ cres = [c \in Callers |-> NoProbe]
    /\ cout = [c \in Callers |-> NoOutcome]
    /\ probe = NoProbe
    /\ verdict = NoOutcome
    /\ sends = [c \in Callers |-> 0]
    /\ due = 0
    /\ elapsed = 0
    /\ ticks = 0
    /\ oks = 0
    /\ inflight = 0

Build ==
    \/ New
    \/ TlsFromOptions
    \/ HttpClientNew
    \/ SpawnRegenerateToken
    \/ BuildSink

Regenerator ==
    \/ Tick
    \/ FetchOk
    \/ FetchErr
    \/ WriteLock
    \/ WriteChar
    \/ WriteUnlock
    \/ Publish

Next ==
    \/ Build
    \/ Regenerator
    \/ PeriodElapses
    \/ \E c \in Callers : CloneService(c)
    \/ \E c \in Callers : CallStart(c, SampleRequests)
    \/ \E c \in Callers : CopyChar(c)
    \/ \E c \in Callers : Apply(c)
    \/ \E c \in Callers : Poll(c)
    \/ \E c \in Callers : Respond(c, SampleResults)
    \/ \E c \in Callers : Return(c)

Spec == Init /\ [][Next]_vars

\* the delivery path alone: one clone of a built service takes requests of
\* every body and metadata and the endpoint answers with every status
InitDelivery ==
    /\ bpc = "ok"
    /\ berr = "none"
    /\ \E g \in Tokens :
         /\ heap = <<NewInner(Secret(g))>>
         /\ installed = Secret(g)
    /\ creds = 1
    /\ task = 1
    /\ svc = [c \in Callers |-> 0]
    /\ rpc = "sleep"
    /\ fetched = 0
    /\ wpos = 0
    /\ version = 0
    /\ receivers = 0
    /\ fetches = 1
    /\ lastTick = "none"
    /\ tokenBefore = <<>>
    /\ cpc = [c \in Callers |-> "none"]
    /\ creq = [c \in Callers |-> NoRequest]
    /\ cbuf = [c \in Callers |-> <<>>]
    /\ chttp = [c \in Callers |-> NoHttp]
    /\ cseen = [c \in Callers |-> <<>>]
    /\ wire = [c \in Callers |-> NoHttp]
    /\ cres = [c \in Callers |-> NoProbe]
    /\ cout = [c \in Callers |-> NoOutcome]
    /\ probe = NoProbe
    /\ verdict = NoOutcome
    /\ sends = [c \in Callers |-> 0]
    /\ due = 0
    /\ elapsed = 0
    /\ ticks = 0
    /\ oks = 0
    /\ inflight = 0

\* the requests and the transport results of the delivery specification
DeliveryRequests == Requests(BigBodyLen)

DeliveryResults == TransportResults(StatusCodes)

NextDelivery ==
    \/ CloneService(1)
    \/ CallStart(1, DeliveryRequests)
    \/ CopyChar(1)
    \/ Apply(1)
    \/ Poll(1)
    \/ Respond(1, DeliveryResults)
    \/ Return(1)
    \/ EventStatus(1)

SpecDelivery == InitDelivery /\ [][NextDelivery]_vars

\* the life of the regenerator task alone: construction, the interval, the
\* ticks, and the clones of the service being made and dropped
NextTask ==
    \/ Build
    \/ Regenerator
    \/ PeriodElapses
    \/ \E c \in Callers : CloneService(c)
    \/ \E c \in Callers : DropService(c)
    \/ DropSink

SpecTask == Init /\ [][NextTask]_vars

\* the runtime runs the spawned task whenever it can take a step
SpecTaskFair == SpecTask /\ WF_vars(Regenerator)

\* the retry logic alone, applied to a response of every status and to
\* every transport error
Probes ==
    [kind : {"response"}, status : StatusCodes]
        \cup [kind : {"error"}, error : TransportErrors]

\* should_retry_response is applied to the response under test
ShouldRetryResponse ==
    /\ probe.kind = "response"
    /\ verdict = NoOutcome
    /\ verdict' = [kind |-> "action",
                   action |-> should_retry_response([status |-> probe.status])]
    /\ UNCHANGED <<buildVars, storeVars, taskVars, ghostVars, callVars, probe>>
    /\ UNCHANGED <<sends, timerVars, countVars>>

\* is_retriable_error is applied to the error under test
IsRetriableError ==
    /\ probe.kind = "error"
    /\ verdict = NoOutcome
    /\ verdict' = [kind |-> "bool", retriable |-> is_retriable_error(probe)]
    /\ UNCHANGED <<buildVars, storeVars, taskVars, ghostVars, callVars, probe>>
    /\ UNCHANGED <<sends, timerVars, countVars>>

InitRetry ==
    /\ probe \in Probes
    /\ verdict = NoOutcome
    /\ bpc = "new"
    /\ berr = "none"
    /\ heap = <<>>
    /\ creds = 0
    /\ task = 0
    /\ svc = [c \in Callers |-> 0]
    /\ rpc = "none"
    /\ fetched = 0
    /\ wpos = 0
    /\ version = 0
    /\ receivers = 0
    /\ fetches = 0
    /\ lastTick = "none"
    /\ tokenBefore = <<>>
    /\ installed = <<>>
    /\ cpc = [c \in Callers |-> "none"]
    /\ creq = [c \in Callers |-> NoRequest]
    /\ cbuf = [c \in Callers |-> <<>>]
    /\ chttp = [c \in Callers |-> NoHttp]
    /\ cseen = [c \in Callers |-> <<>>]
    /\ wire = [c \in Callers |-> NoHttp]
    /\ cres = [c \in Callers |-> NoProbe]
    /\ cout = [c \in Callers |-> NoOutcome]
    /\ sends = [c \in Callers |-> 0]
    /\ due = 0
    /\ elapsed = 0
    /\ ticks = 0
    /\ oks = 0
    /\ inflight = 0

NextRetry ==
    \/ ShouldRetryResponse
    \/ IsRetriableError

SpecRetry == InitRetry /\ [][NextRetry]_vars


\* ----------------------------------------------------------------- claims
IsPrefix(s, t) == Len(s) <= Len(t) /\ s = SubSeq(t, 1, Len(s))

\* the value of the Authorization header of an http request
Authorization(http) == http.headers["authorization"]

\* get_token of caller c has copied the whole secret and is about to return
Returning(c) == cpc[c] = "read" /\ Len(cbuf[c]) = Len(heap[svc[c]].token)

\* C1: after a tick whose fetch failed the store holds exactly the secret it
\* held when the tick fired, every get_token in progress is copying that
\* secret, and the header apply builds from it carries that secret.
C1_FailOpenRefresh ==
    lastTick = "failed" =>
        /\ heap[task].token = tokenBefore
        /\ \A c \in Callers :
             cpc[c] = "read" =>
                 /\ IsPrefix(cbuf[c], tokenBefore)
                 /\ Returning(c) =>
                        Authorization(apply(chttp[c], cbuf[c]))
                            = Bearer \o tokenBefore

\* C1 witness: after a failed tick a get_token has copied the whole secret
C1_Witness ==
    /\ lastTick = "failed"
    /\ \E c \in Callers : Returning(c) /\ cbuf[c] = tokenBefore
                          /\ tokenBefore \in Secrets

\* a step in which an authenticator or a service is cloned
CloneStep == task' # task \/ svc' # svc

\* C2: every clone points to the one Inner; whenever no swap is under way a
\* get_token through any clone copies the secret that new or the latest
\* successful tick installed; and a step that clones starts no fetch and
\* leaves the store alone.
C2_TokenFreshnessAcrossClones ==
    [][/\ Len(heap') <= 1
       /\ \A c \in Callers : svc'[c] # 0 => svc'[c] = task' /\ task' # 0
       /\ creds' # 0 /\ task' # 0 => creds' = task'
       /\ \A c \in Callers : cpc'[c] = "read" => IsPrefix(cbuf'[c], installed')
       /\ \A c \in Callers :
            cpc[c] = "read" /\ cpc'[c] = "pending" =>
                Authorization(chttp'[c]) = Bearer \o installed'
       /\ lastTick' = "ok" => heap'[task'].token = installed'
       /\ CloneStep => fetches' = fetches /\ heap' = heap]_vars

\* C2 witness: a successful tick installed a secret other than the previous
\* one and a call made since carries it
C2_Witness ==
    /\ lastTick = "ok"
    /\ installed # tokenBefore
    /\ \E c \in Callers :
         cpc[c] = "pending" /\ Authorization(chttp[c]) = Bearer \o installed

\* the secrets a get_token may return: the installed one and, while the
\* regenerator is replacing it, the one being installed
OldOrNew ==
    {installed} \cup (IF rpc \in {"lock", "write"} THEN {Secret(fetched)} ELSE {})

\* C3: a get_token that returns yields the complete old or the complete new
\* secret, and every header built carries a complete secret.
C3_AtomicSwap ==
    \A c \in Callers :
        /\ Returning(c) => cbuf[c] \in OldOrNew /\ cbuf[c] \in Secrets
        /\ cpc[c] = "pending" =>
               \E t \in Secrets : Authorization(chttp[c]) = Bearer \o t
        /\ cpc[c] = "sending" =>
               \E t \in Secrets : Authorization(wire[c]) = Bearer \o t

\* C3 witness: a get_token returns the old secret while the regenerator
\* waits for the write lock with a different new secret
C3_Witness ==
    /\ rpc = "lock"
    /\ Secret(fetched) # installed
    /\ \E c \in Callers : Returning(c) /\ cbuf[c] = installed

\* C4: when the initial fetch failed build has returned that error, no
\* authenticator, Inner or service clone exists and no regenerator runs.
C4_StartupFailFast ==
    (fetches >= 1 /\ installed = <<>>) =>
        /\ bpc = "err"
        /\ berr = "auth"
        /\ heap = <<>>
        /\ creds = 0
        /\ task = 0
        /\ rpc = "none"
        /\ \A c \in Callers : svc[c] = 0 /\ cpc[c] = "none"

\* C4 witness: the initial fetch failed
C4_Witness == fetches = 1 /\ berr = "auth"

\* the action the table of the retry classifier assigns to a status
TableAction(code) ==
    IF code = 429 THEN "Retry"
    ELSE IF code = 501 THEN "DontRetry"
    ELSE IF code \in 500..599 THEN "Retry"
    ELSE IF code \in 200..299 THEN "Successful"
    ELSE "DontRetry"

\* C5: every error call returns is classified as the table prescribes: a
\* transport failure is Retry and ServerError{code} gets the action of the
\* table for code.
C5_ErrorsClassifiedPerTable ==
    \A c \in Callers :
        cpc[c] = "done" =>
            /\ cout[c].kind = "HttpError" =>
                   ClassifyOutcome(cout[c]).action = "Retry"
            /\ cout[c].kind = "ServerError" =>
                   ClassifyOutcome(cout[c]).action = TableAction(cout[c].code)

\* C6: should_retry_response answers every status with the one action of
\* the table, with the reasons the table gives for 429 and 501, and
\* is_retriable_error answers true for every transport error.
C6_RetryClassificationTotality ==
    /\ verdict.kind = "action" =>
           /\ verdict.action.action \in {"Successful", "Retry", "DontRetry"}
           /\ verdict.action.action = TableAction(probe.status)
           /\ probe.status = 429 =>
                  verdict.action.reason = <<"too many requests">>
           /\ probe.status = 501 =>
                  verdict.action.reason = <<"endpoint not implemented">>
    /\ verdict.kind = "bool" => verdict.retriable = TRUE

\* C6 witness: the response with status 501 has been classified
C6_Witness ==
    /\ probe.kind = "response"
    /\ probe.status = 501
    /\ verdict.kind = "action"

\* C7: a call ends in the one outcome its transport result determines:
\* HttpError with the cause, ServerError with the status of a non-2xx
\* response, or Ok with the sizes of the request's metadata.
C7_OutcomeMapping ==
    \A c \in Callers :
        cpc[c] = "done" =>
            IF ~cres[c].ok
            THEN cout[c] = [kind |-> "HttpError", error |-> cres[c].error]
            ELSE IF cres[c].status \in 200..299
            THEN /\ cout[c].kind = "Ok"
                 /\ cout[c].status = cres[c].status
                 /\ cout[c].raw_byte_size
                        = creq[c].metadata.request_encoded_size
                 /\ cout[c].events_byte_size
                        = creq[c].metadata.events_byte_size
            ELSE cout[c] = [kind |-> "ServerError", code |-> cres[c].status]

\* C7 witness: a call ended in Ok with two different sizes
C7_Witness ==
    \E c \in Callers :
        /\ cpc[c] = "done"
        /\ cout[c].kind = "Ok"
        /\ cout[c].raw_byte_size # cout[c].events_byte_size

\* C8: the Authorization header of a request, in the future call returned
\* and on the wire, carries the secret that was stored when call was
\* invoked, whatever has happened to the store since.
C8_TokenCopiedAtCallTime ==
    \A c \in Callers :
        /\ cpc[c] = "pending" => Authorization(chttp[c]) = Bearer \o cseen[c]
        /\ cpc[c] = "sending" => Authorization(wire[c]) = Bearer \o cseen[c]

\* C8 witness: a request is on the wire with the secret of its call although
\* the store holds another secret by now
C8_Witness ==
    \E c \in Callers :
        /\ cpc[c] = "sending"
        /\ ~heap[svc[c]].writer
        /\ heap[svc[c]].token # cseen[c]

RECURSIVE from_digits(_)
\* the number a sequence of decimal digits denotes
from_digits(ds) ==
    IF ds = <<>> THEN 0
    ELSE 10 * from_digits(SubSeq(ds, 1, Len(ds) - 1))
         + (CHOOSE d \in 0..9 : Digits[d + 1] = ds[Len(ds)])

\* the request the specification prescribes for a body and a token
ExpectedRequest(http, body, token) ==
    /\ http.method = "POST"
    /\ http.uri = <<"https://", "sample.westeurope.ingest.monitor.azure.com",
                    "/dataCollectionRules/",
                    "dcr-00000000000000000000000000000000",
                    "/streams/", "Custom-CustomTableRawData",
                    "?api-version=2021-11-01-preview">>
    /\ http.body = body
    /\ DOMAIN http.headers = {"content-type", "content-length", "authorization"}
    /\ http.headers["content-type"] = <<"application/json">>
    /\ http.headers["content-length"] # <<>>
    /\ from_digits(http.headers["content-length"]) = Len(body)
    /\ http.headers["authorization"] = Bearer \o token

\* C9: the request call builds, and the one it hands to the transport, is a
\* POST to the configured URI with the body unmodified and exactly the
\* headers content-type, content-length and Authorization: Bearer T.
C9_RequestConstruction ==
    \A c \in Callers :
        /\ cpc[c] = "pending" =>
               ExpectedRequest(chttp[c], creq[c].body, heap[svc[c]].token)
        /\ cpc[c] = "sending" =>
               ExpectedRequest(wire[c], creq[c].body, heap[svc[c]].token)

\* C9 witness: a request with a body of ten bytes is on the wire
C9_Witness ==
    \E c \in Callers :
        /\ cpc[c] = "sending"
        /\ Len(creq[c].body) = 10
        /\ wire[c].headers["content-length"] = <<"1", "0">>

\* C10: whenever build has returned an error no regenerator task has been
\* started.
C10_NoRefresherOnBuildError ==
    bpc = "err" => rpc = "none" /\ task = 0

\* the sink and every clone of the service have been dropped
AllDropped ==
    /\ bpc = "dropped"
    /\ creds = 0
    /\ \A c \in Callers : svc[c] = 0

\* C11: once the owning service has dropped every clone it holds, the
\* regenerator task eventually stops.
C11_RefresherStopsAfterDrop == AllDropped ~> (rpc = "stopped")

\* a tick of the regenerator has begun and its fetch or store update is
\* unfinished
TickInProgress == rpc \in {"fetch", "lock", "write"}

\* C12: at most one refresh fetch is in flight at any time, and a tick
\* begins only when the fetch and the store update of the previous tick have
\* finished, also when periods elapsed during a slow fetch.
C12_SequentialTicks ==
    /\ [](/\ inflight <= 1
          /\ inflight = 1 <=> rpc = "fetch"
          /\ TickInProgress <=> lastTick = "running")
    /\ [][ticks' # ticks =>
            /\ ~TickInProgress
            /\ inflight = 0
            /\ ~heap[task].writer
            /\ inflight' = 1]_vars

\* a period elapsed while the first tick was unfinished; the second tick
\* has not begun
C12_Witness == TickInProgress /\ ticks = 1 /\ due >= 1

\* C13: each tick performs exactly one fetch and a failed fetch is not
\* retried within its tick; after a failed tick the loop keeps running, the
\* next due tick can begin, and a fetch that succeeds is eventually stored.
C13_FailedTickRecoverable ==
    /\ [](rpc # "none" => fetches = ticks + 1)
    /\ [](lastTick = "failed" =>
            /\ rpc = "sleep"
            /\ heap[task].token = tokenBefore
            /\ due > 0 => ENABLED Tick)
    /\ [][fetches' # fetches /\ rpc # "none" =>
            ticks' = ticks + 1 /\ fetches' = fetches + 1]_vars
    /\ (rpc = "lock") ~>
         (lastTick = "ok" /\ heap[task].token = Secret(fetched))

\* the first tick failed, the second one succeeded and replaced the token
C13_Witness ==
    /\ ticks = 2
    /\ oks = 1
    /\ lastTick = "ok"
    /\ heap[task].token = Secret(fetched)
    /\ heap[task].token # tokenBefore

\* C14: no lock is held across I/O. The write lock is held only between the
\* end of the fetch and the end of the swap and a read lock only during the
\* copy, so while a refresh fetch is in flight get_token is not blocked and
\* returns the previous token.
C14_NoLockAcrossIO ==
    /\ \A i \in 1..Len(heap) :
         /\ heap[i].writer => i = task /\ rpc = "write"
         /\ \A c \in Callers :
              c \in heap[i].readers <=> svc[c] = i /\ cpc[c] = "read"
    /\ rpc = "fetch" =>
         /\ heap[task].token = tokenBefore
         /\ \A c \in Callers :
              /\ svc[c] # 0 => CanRead(svc[c])
              /\ cpc[c] = "read" => IsPrefix(cbuf[c], tokenBefore)
              /\ Returning(c) => cbuf[c] = tokenBefore

\* a get_token returns the previous token while a refresh fetch is in flight
C14_Witness ==
    /\ rpc = "fetch"
    /\ \E c \in Callers : Returning(c) /\ cbuf[c] = tokenBefore

\* C15: the refresh signal is published once for each tick whose fetch
\* succeeded and never for a failed one, and only when the store holds the
\* new token, so whoever sees signal number n finds in the store the token
\* of refresh n or of a later refresh.
C15_SignalAfterStore ==
    /\ [](/\ version = oks - (IF rpc = "publish" THEN 1 ELSE 0)
          /\ rpc = "publish" =>
               /\ lastTick = "ok"
               /\ ~heap[task].writer
               /\ heap[task].token = installed
               /\ installed = Secret(fetched))
    /\ [][version' # version =>
            /\ version' = version + 1
            /\ rpc = "publish"
            /\ lastTick = "ok"
            /\ heap' = heap
            /\ heap[task].token = installed]_vars
    /\ [][lastTick' = "failed" => version' = version]_vars
    /\ [](version >= 1 /\ ~TickInProgress => heap[task].token = installed)

\* one tick succeeded and was signalled, another one failed without a signal
C15_Witness ==
    /\ ticks = 2
    /\ oks = 1
    /\ version = 1
    /\ rpc = "sleep"
    /\ heap[task].token = installed

\* C16: until one full period has elapsed since the regenerator started it
\* performs no fetch, so the token of the initial fetch stays in the store;
\* the regenerator never begins more ticks than periods have elapsed.
C16_NoRefreshBeforeFirstPeriod ==
    /\ ticks <= elapsed
    /\ ticks + due = elapsed
    /\ rpc # "none" /\ elapsed = 0 =>
         /\ rpc = "sleep"
         /\ ~ENABLED Tick
         /\ fetches = 1
         /\ lastTick = "none"
         /\ version = 0
         /\ heap[task].token = installed
         /\ ~heap[task].writer

\* the sink is built and the regenerator waits for its first period; the
\* store holds the token of the initial fetch
C16_Witness ==
    /\ bpc = "ok"
    /\ rpc = "sleep"
    /\ elapsed = 0
    /\ fetches = 1
    /\ heap[task].token = installed

\* C17: one invocation of call hands exactly one HTTP request to the
\* transport whatever the outcome; the request is consumed by that hand-over
\* and the service never sends it again.
C17_NoRetryInService ==
    \A c \in Callers :
        /\ cpc[c] \in {"none", "idle", "read", "pending"} => sends[c] = 0
        /\ cpc[c] \in {"sending", "done"} => sends[c] = 1
        /\ cpc[c] = "sending" <=> wire[c] # NoHttp
        /\ cpc[c] = "done" =>
             /\ chttp[c] = NoHttp
             /\ cout[c].kind \in {"Ok", "ServerError", "HttpError"}

\* a call ended with a transport failure after a single hand-over
C17_Witness ==
    \E c \in Callers :
        /\ cpc[c] = "done"
        /\ cout[c].kind = "HttpError"
        /\ sends[c] = 1

\* C18: the regenerator runs without observers. build drops the receiver, so
\* every publish happens with no receiver; the publish succeeds, the loop
\* goes on, and each later due tick fetches again.
C18_RefresherIndependentOfObservers ==
    /\ [](rpc # "none" => receivers = 0)
    /\ [](rpc # "stopped")
    /\ [][rpc = "publish" /\ rpc' # rpc =>
            /\ receivers = 0
            /\ version' = version + 1
            /\ rpc' = "sleep"]_vars
    /\ (rpc = "publish") ~> (rpc = "sleep")
    /\ (rpc = "sleep" /\ due > 0) ~> (rpc = "fetch")

\* after a publish without receivers a later tick replaced the token again
C18_Witness ==
    /\ receivers = 0
    /\ version = 2
    /\ oks = 2
    /\ heap[task].token = installed
    /\ heap[task].token # tokenBefore

\* the event status the statuses are meant to have
StatusClass(code) ==
    IF code \in 200..299 THEN "Delivered"
    ELSE IF code \in 500..599 THEN "Errored"
    ELSE "Rejected"

\* C19: event_status is Delivered for a 2xx status, Errored for a 5xx status
\* and Rejected for any other; call returns a response only for 2xx, so each
\* response it returns has event status Delivered and is classified
\* Successful by should_retry_response.
C19_ReturnedResponsesDelivered ==
    /\ verdict.kind = "status" => verdict.status = "Delivered"
    /\ \A c \in Callers :
         cpc[c] = "done" =>
            /\ cres[c].ok =>
                 /\ event_status([status |-> cres[c].status])
                        = StatusClass(cres[c].status)
                 /\ cout[c].kind = "Ok" <=> cres[c].status \in 200..299
            /\ cout[c].kind = "Ok" =>
                 /\ cout[c].status = cres[c].status
                 /\ event_status(cout[c]) = "Delivered"
                 /\ should_retry_response(cout[c]).action = "Successful"

\* the driver has read the event status of a returned response, and a later
\* call met a 5xx status, for which call returns no response
C19_Witness ==
    /\ verdict.kind = "status"
    /\ \E c \in Callers :
         /\ cpc[c] = "done"
         /\ cres[c].ok
         /\ event_status([status |-> cres[c].status]) = "Errored"
         /\ cout[c].kind = "ServerError"

====
